---- MODULE Spec2Model ----
(***************************************************************************)
(* Model of etl_weather.py: the extract -> transform -> load cycle, the    *)
(* one-shot block under `if __name__ == "__main__"`, run_full_etl and the  *)
(* module-level scheduler loop.                                            *)
(*                                                                         *)
(* Temperatures are fixed-point integers in thousandths of a degree.       *)
(* A DataFrame is a record [rows |-> <<row, ...>>]; Python's None is the   *)
(* record None.  Characters of the city name are reduced to their case     *)
(* class: 0 = separator, 1 = lower-case letter, 2 = upper-case letter.     *)
(***************************************************************************)
EXTENDS Integers, Sequences, FiniteSets, TLC

\* ------------------------------------------------------------------ bounds
\* number of pipeline cycles one process run is followed for
MaxCycles ==
  2

\* distinct wall-clock readings datetime.now() can return
MaxDate ==
  2

\* largest magnitude of a raw provider temperature, in thousandths of a
\* degree Celsius
MaxRaw ==
  25

\* provider humidity values explored by the transform specification
MaxHumidity ==
  100

\* ---------------------------------------------------------- input domains
Dates ==
  1..MaxDate

RawTemps ==
  (0 - MaxRaw)..MaxRaw

Humidities ==
  0..MaxHumidity

\* provider "name" values: "bournemouth", "Bournemouth", "BOURNEMOUTH" by case class
CityNames ==
  {<<1, 1>>, <<2, 1>>, <<2, 2>>}

Descriptions ==
  {"clear sky"}

\* the provider responses fed through whole cycles: a rounding tie and a
\* plain temperature, a humidity inside and one outside the quality band
CycleTemps ==
  {5, 14}

CycleHumidities ==
  {5, 55}

CycleCities ==
  {<<1, 1>>}

\* ------------------------------------------------------------- Python None
None ==
  [none |-> TRUE]

\* df.empty
Empty(df) ==
  Len(df.rows) = 0

\* pd.DataFrame([weather_record])
DataFrame(record) ==
  [rows |-> <<record>>]

\* --------------------------------------------------------- pure functions
\* "temp_kelvin": data["main"]["temp"] + 273.15, in thousandths
KelvinOffset ==
  273150

ToKelvin(c) ==
  c + KelvinOffset

\* Series.round(2): round half to even at the second decimal.  x is in
\* thousandths; \div floors and % is non-negative, also for negative x.
Round2(x) ==
  LET q == x \div 10
      r == x % 10
  IN  IF r < 5 THEN 10 * q
      ELSE IF r > 5 THEN 10 * (q + 1)
      ELSE IF q % 2 = 0 THEN 10 * q ELSE 10 * (q + 1)

\* str.title(): a letter that follows a non-letter (or starts the string)
\* becomes upper case, every other letter lower case
RECURSIVE TitleFrom(_, _)
TitleFrom(s, prevIsLetter) ==
  IF s = <<>> THEN <<>>
  ELSE LET c == Head(s)
       IN  IF c = 0 THEN <<0>> \o TitleFrom(Tail(s), FALSE)
           ELSE <<IF prevIsLetter THEN 1 ELSE 2>> \o TitleFrom(Tail(s), TRUE)

Title(s) ==
  TitleFrom(s, FALSE)

\* variant: the 20..100 band
QualityWideBand(h) ==
  IF 20 <= h /\ h <= 100 THEN "Good" ELSE "Check"

\* lambda h: "Good" if 30 <= h <= 90 else "Check"
Quality(h) ==
  IF 30 <= h /\ h <= 90 THEN "Good" ELSE "Check"

\* variant: Kelvin derived from the already rounded Celsius
WeatherRecordRoundedCelsius(date, data) ==
  [date |-> date,
   city |-> data.name,
   temp_kelvin |-> ToKelvin(Round2(data.temp)),
   temp_celsius |-> data.temp,
   humidity |-> data.humidity,
   description |-> data.description]

\* the weather_record dict built from the response body: Kelvin is derived
\* from the raw Celsius, neither column is rounded yet
WeatherRecord(date, data) ==
  [date |-> date,
   city |-> data.name,
   temp_kelvin |-> ToKelvin(data.temp),
   temp_celsius |-> data.temp,
   humidity |-> data.humidity,
   description |-> data.description]

\* the column assignments of transform_weather applied to one row
TransformRow(row) ==
  [date |-> row.date,
   city |-> Title(row.city),
   temp_kelvin |-> Round2(row.temp_kelvin),
   temp_celsius |-> Round2(row.temp_celsius),
   humidity |-> row.humidity,
   description |-> row.description,
   data_quality |-> Quality(row.humidity)]

\* transform_weather(df)
transform_weather(df) ==
  IF df = None THEN None
  ELSE IF Empty(df) THEN None
  ELSE [rows |-> [i \in 1..Len(df.rows) |-> TransformRow(df.rows[i])]]

\* the tuple handed to cur.execute: data_quality is not among the columns
InsertTuple(row) ==
  [date |-> row.date,
   city |-> row.city,
   temp_kelvin |-> row.temp_kelvin,
   temp_celsius |-> row.temp_celsius,
   humidity |-> row.humidity,
   description |-> row.description]

\* uniqueness key of weather_data (the table definition is not in the sources)
ConflictKey(t) ==
  t.date

\* variant: an upsert that replaces the stored row
InsertOverwrite(table, t) ==
  {s \in table : ConflictKey(s) # ConflictKey(t)} \cup {t}

\* INSERT ... ON CONFLICT DO NOTHING
InsertOnConflictDoNothing(table, t) ==
  IF \E s \in table : ConflictKey(s) = ConflictKey(t) THEN table ELSE table \cup {t}

\* ------------------------------------------------------ provider responses
\* requests.get / raise_for_status raised (network failure, non-2xx status)
HttpError ==
  [error |-> "http"]

\* a 2xx body without the expected fields (KeyError while building the record)
Malformed ==
  [error |-> "field"]

Body(name, temp, humidity, description) ==
  [name |-> name, temp |-> temp, humidity |-> humidity, description |-> description]

\* every well-formed body over the full temperature and humidity ranges
AllBodies ==
  {Body(n, t, h, d) : n \in CityNames, t \in RawTemps, h \in Humidities, d \in Descriptions}

\* the bodies fed through whole cycles
CycleBodies ==
  {Body(n, t, h, d) : n \in CycleCities, t \in CycleTemps, h \in CycleHumidities, d \in Descriptions}

\* ------------------------------------------------------------------- state
VARIABLES
  pc,              \* position of the single-threaded process
  isMain,          \* __name__ == "__main__"
  mode,            \* the cycle being run: "oneshot" (main block) or "scheduled" (run_full_etl)
  cycles,          \* cycles started by this process
  response,        \* outcome of requests.get in this cycle
  raw_df,          \* raw_df of the running cycle
  transformed_df,  \* transformed_df of the running cycle
  table,           \* committed rows of weather_data
  conn,            \* local conn of load_to_supabase: "unbound", "open", "closed"
  cur,             \* local cur of load_to_supabase: "unbound", "open", "closed"
  pending,         \* tuples inserted by the open transaction, not yet committed
  openConns,       \* database connections opened and not closed
  exc,             \* exception in flight: "none", "db", "UnboundLocalError"
  requests,        \* HTTP requests made in this cycle
  invoked,         \* stages invoked in this cycle
  extract_failed,  \* extract_weather returned None in this cycle
  failedAt,        \* load step that raised in this cycle, or "none"
  tableBefore      \* table when the running cycle started

vars ==
  <<pc, isMain, mode, cycles, response, raw_df, transformed_df, table, conn, cur,
    pending, openConns, exc, requests, invoked, extract_failed, failedAt, tableBefore>>

dbVars ==
  <<table, conn, cur, pending, openConns, exc, failedAt, tableBefore>>

procVars ==
  <<isMain, mode, cycles>>

dataVars ==
  <<response, raw_df, transformed_df>>

obsVars ==
  <<requests, invoked, extract_failed>>

\* ------------------------------------------------------------------ start
Init ==
  /\ pc = "module"
  /\ isMain \in BOOLEAN
  /\ mode = "none"
  /\ cycles = 0
  /\ response = None
  /\ raw_df = None
  /\ transformed_df = None
  /\ table = {}
  /\ conn = "unbound"
  /\ cur = "unbound"
  /\ pending = <<>>
  /\ openConns = 0
  /\ exc = "none"
  /\ requests = 0
  /\ invoked = {}
  /\ extract_failed = FALSE
  /\ failedAt = "none"
  /\ tableBefore = {}

\* entry of a cycle: fresh locals, nothing invoked yet
StartCycle(m) ==
  /\ mode' = m
  /\ cycles' = cycles + 1
  /\ response' = None
  /\ raw_df' = None
  /\ transformed_df' = None
  /\ conn' = "unbound"
  /\ cur' = "unbound"
  /\ pending' = <<>>
  /\ requests' = 0
  /\ invoked' = {}
  /\ extract_failed' = FALSE
  /\ failedAt' = "none"
  /\ tableBefore' = table
  /\ UNCHANGED <<isMain, table, openConns, exc>>

\* if __name__ == "__main__": the one-shot cycle runs first, otherwise the
\* module body falls through to the scheduler registration
ModuleMain ==
  /\ pc = "module"
  /\ IF isMain
       THEN /\ StartCycle("oneshot")
            /\ pc' = "request"
       ELSE /\ pc' = "register"
            /\ UNCHANGED <<procVars, dataVars, dbVars, obsVars>>

\* ---------------------------------------------------------------- extract
\* requests.get(...); raise_for_status(); response.json(): one request, no
\* retry loop around it
HttpGet ==
  /\ pc = "request"
  /\ \E r \in {HttpError, Malformed} \cup CycleBodies :
       response' = r
  /\ pc' = "build"
  /\ requests' = requests + 1
  /\ invoked' = invoked \cup {"extract"}
  /\ UNCHANGED <<procVars, raw_df, transformed_df, dbVars, extract_failed>>

\* the rest of extract_weather: stamp the time, build the record, wrap it in
\* a DataFrame; any exception (from the request or a missing field) is
\* caught, printed, and None is returned
ExtractBuild ==
  /\ pc = "build"
  /\ IF response \in {HttpError, Malformed}
       THEN /\ raw_df' = None
            /\ extract_failed' = TRUE
       ELSE /\ \E utc_now \in Dates :
                 raw_df' = DataFrame(WeatherRecord(utc_now, response))
            /\ extract_failed' = FALSE
  /\ pc' = "check_raw"
  /\ UNCHANGED <<procVars, response, transformed_df, dbVars, requests, invoked>>

\* ------------------------------------------------------- cycle short-circuit
\* variant: transform_weather called without the guard
CheckRawNoGuard ==
  /\ pc = "check_raw"
  /\ pc' = "transform"
  /\ UNCHANGED <<procVars, dataVars, dbVars, obsVars>>

\* if raw_df is not None:
CheckRaw ==
  /\ pc = "check_raw"
  /\ pc' = IF raw_df # None THEN "transform" ELSE "cycle_end"
  /\ UNCHANGED <<procVars, dataVars, dbVars, obsVars>>

\* transformed_df = transform_weather(raw_df)
TransformWeather ==
  /\ pc = "transform"
  /\ transformed_df' = transform_weather(raw_df)
  /\ invoked' = invoked \cup {"transform"}
  /\ pc' = "check_transformed"
  /\ UNCHANGED <<procVars, response, raw_df, dbVars, requests, extract_failed>>

\* if transformed_df is not None:
CheckTransformed ==
  /\ pc = "check_transformed"
  /\ pc' = IF transformed_df # None THEN "connect" ELSE "cycle_end"
  /\ UNCHANGED <<procVars, dataVars, dbVars, obsVars>>

\* ------------------------------------------------------------------- load
\* rows of df in the order of df.iterrows(), as execute parameter tuples
RowTuples(df) ==
  [i \in 1..Len(df.rows) |-> InsertTuple(df.rows[i])]

\* effect of committing the inserts of a transaction, in order
RECURSIVE ApplyInserts(_, _)
ApplyInserts(t, tuples) ==
  IF tuples = <<>> THEN t
  ELSE ApplyInserts(InsertOnConflictDoNothing(t, Head(tuples)), Tail(tuples))

\* load_to_supabase entry and conn = psycopg2.connect(DB_URL)
LoadConnect ==
  /\ pc = "connect"
  /\ invoked' = invoked \cup {"load"}
  /\ IF transformed_df = None \/ Empty(transformed_df)
       THEN /\ pc' = "cycle_end"
            /\ UNCHANGED <<conn, openConns, exc, failedAt>>
       ELSE \E ok \in BOOLEAN :
              IF ok
                THEN /\ conn' = "open"
                     /\ openConns' = openConns + 1
                     /\ pc' = "cursor"
                     /\ UNCHANGED <<exc, failedAt>>
                ELSE /\ exc' = "db"
                     /\ failedAt' = "connect"
                     /\ pc' = "except"
                     /\ UNCHANGED <<conn, openConns>>
  /\ UNCHANGED <<procVars, dataVars, table, cur, pending, tableBefore, requests, extract_failed>>

\* cur = conn.cursor()
LoadCursor ==
  /\ pc = "cursor"
  /\ \E ok \in BOOLEAN :
       IF ok
         THEN /\ cur' = "open"
              /\ pc' = "execute"
              /\ UNCHANGED <<exc, failedAt>>
         ELSE /\ exc' = "db"
              /\ failedAt' = "cursor"
              /\ pc' = "except"
              /\ UNCHANGED cur
  /\ UNCHANGED <<procVars, dataVars, table, conn, pending, openConns, tableBefore, obsVars>>

\* variant: the same loop on a connection that commits every statement
LoadExecuteAutocommit ==
  /\ pc = "execute"
  /\ \E ok \in BOOLEAN :
       IF ok
         THEN /\ table' = ApplyInserts(table, RowTuples(transformed_df))
              /\ pc' = "commit"
              /\ UNCHANGED <<pending, exc, failedAt>>
         ELSE /\ exc' = "db"
              /\ failedAt' = "execute"
              /\ pc' = "except"
              /\ UNCHANGED <<pending, table>>
  /\ UNCHANGED <<procVars, dataVars, conn, cur, openConns, tableBefore, obsVars>>

\* for _, row in df.iterrows(): cur.execute(insert_query, (...)); the inserts
\* stay inside the transaction until conn.commit()
LoadExecute ==
  /\ pc = "execute"
  /\ \E ok \in BOOLEAN :
       IF ok
         THEN /\ pending' = pending \o RowTuples(transformed_df)
              /\ pc' = "commit"
              /\ UNCHANGED <<exc, failedAt>>
         ELSE /\ exc' = "db"
              /\ failedAt' = "execute"
              /\ pc' = "except"
              /\ UNCHANGED pending
  /\ UNCHANGED <<procVars, dataVars, table, conn, cur, openConns, tableBefore, obsVars>>

\* conn.commit(); print("Successfully loaded ...")
LoadCommit ==
  /\ pc = "commit"
  /\ \E ok \in BOOLEAN :
       IF ok
         THEN /\ table' = ApplyInserts(table, pending)
              /\ pending' = <<>>
              /\ pc' = "finally"
              /\ UNCHANGED <<exc, failedAt>>
         ELSE /\ exc' = "db"
              /\ failedAt' = "commit"
              /\ pc' = "except"
              /\ UNCHANGED <<table, pending>>
  /\ UNCHANGED <<procVars, dataVars, conn, cur, openConns, tableBefore, obsVars>>

\* except Exception as e: print(...); conn.rollback().  The handler catches
\* the database error; naming conn when connect() raised before binding it
\* raises UnboundLocalError out of the handler.
LoadExcept ==
  /\ pc = "except"
  /\ IF conn = "unbound"
       THEN /\ exc' = "UnboundLocalError"
            /\ UNCHANGED pending
       ELSE /\ pending' = <<>>
            /\ exc' = "none"
  /\ pc' = "finally"
  /\ UNCHANGED <<procVars, dataVars, table, conn, cur, openConns, failedAt, tableBefore, obsVars>>

\* finally: cur.close(); conn.close().  Naming cur when it was never bound
\* raises UnboundLocalError and conn.close() is not reached.
LoadFinally ==
  /\ pc = "finally"
  /\ IF cur = "unbound"
       THEN /\ exc' = "UnboundLocalError"
            /\ pc' = "unwind"
            /\ UNCHANGED <<conn, cur, openConns>>
       ELSE /\ cur' = "closed"
            /\ conn' = "closed"
            /\ openConns' = openConns - 1
            /\ pc' = IF exc = "none" THEN "cycle_end" ELSE "unwind"
            /\ UNCHANGED exc
  /\ UNCHANGED <<procVars, dataVars, table, pending, failedAt, tableBefore, obsVars>>

\* an exception leaving load_to_supabase meets no try/except in the main
\* block, in run_full_etl or around schedule.run_pending(): the interpreter
\* prints the traceback and the process ends
Unhandled ==
  /\ pc = "unwind"
  /\ pc' = "crashed"
  /\ UNCHANGED <<procVars, dataVars, dbVars, obsVars>>

\* -------------------------------------------------------------- scheduler
\* print("ETL pipeline completed!") / print("Scheduled run completed!"): the
\* main block is followed by the rest of the module body, run_full_etl
\* returns into the while loop
CycleEnd ==
  /\ pc = "cycle_end"
  /\ pc' = IF mode = "oneshot" THEN "register" ELSE "sleep"
  /\ UNCHANGED <<procVars, dataVars, dbVars, obsVars>>

\* schedule.every().day.at("08:00").do(run_full_etl); print("Scheduler started...")
Register ==
  /\ pc = "register"
  /\ pc' = "run_pending"
  /\ UNCHANGED <<procVars, dataVars, dbVars, obsVars>>

\* schedule.run_pending(): runs run_full_etl when the daily trigger is due
RunPending ==
  /\ pc = "run_pending"
  /\ \E due \in BOOLEAN :
       IF due /\ cycles < MaxCycles
         THEN /\ StartCycle("scheduled")
              /\ pc' = "request"
         ELSE /\ pc' = "sleep"
              /\ UNCHANGED <<procVars, dataVars, dbVars, obsVars>>

\* time.sleep(60)
Sleep ==
  /\ pc = "sleep"
  /\ pc' = "run_pending"
  /\ UNCHANGED <<procVars, dataVars, dbVars, obsVars>>

Next ==
  \/ ModuleMain
  \/ HttpGet
  \/ ExtractBuild
  \/ CheckRaw
  \/ TransformWeather
  \/ CheckTransformed
  \/ LoadConnect
  \/ LoadCursor
  \/ LoadExecute
  \/ LoadCommit
  \/ LoadExcept
  \/ LoadFinally
  \/ Unhandled
  \/ CycleEnd
  \/ Register
  \/ RunPending
  \/ Sleep

Spec ==
  Init /\ [][Next]_vars

TypeOK ==
  /\ pc \in {"module", "request", "build", "check_raw", "transform", "check_transformed",
             "connect", "cursor", "execute", "commit", "except", "finally", "unwind",
             "crashed", "cycle_end", "register", "run_pending", "sleep"}
  /\ cycles \in 0..MaxCycles
  /\ openConns \in 0..1
  /\ exc \in {"none", "db", "UnboundLocalError"}

\* ------------------------------------------- extract/transform over all bodies
\* The one-shot cycle right after requests.get returned, for every provider
\* outcome over the full temperature and humidity ranges; the cycle is then
\* followed up to the call of load_to_supabase.
InitTransform ==
  /\ pc = "build"
  /\ isMain = TRUE
  /\ mode = "oneshot"
  /\ cycles = 1
  /\ response \in {HttpError, Malformed} \cup AllBodies
  /\ raw_df = None
  /\ transformed_df = None
  /\ table = {}
  /\ conn = "unbound"
  /\ cur = "unbound"
  /\ pending = <<>>
  /\ openConns = 0
  /\ exc = "none"
  /\ requests = 1
  /\ invoked = {"extract"}
  /\ extract_failed = FALSE
  /\ failedAt = "none"
  /\ tableBefore = {}

NextTransform ==
  \/ ExtractBuild
  \/ CheckRaw
  \/ TransformWeather
  \/ CheckTransformed

SpecTransform ==
  InitTransform /\ [][NextTransform]_vars

\* ================================================================== claims
AfterLoad ==
  {"finally", "unwind", "crashed", "cycle_end", "register", "run_pending", "sleep"}

LoadReturned ==
  "load" \in invoked /\ pc \in AfterLoad \ {"finally"}

LoadCommitted ==
  "load" \in invoked /\ failedAt = "none" /\ pc \in AfterLoad

\* C1: in every cycle Transform is invoked only after Extract returned a
\* record and Load only after Transform returned a record; a failed extract
\* leaves both uninvoked, and a Transform that returns no record leaves Load
\* uninvoked without raising.
C1_StagesShortCircuit ==
  /\ "transform" \in invoked => (raw_df # None /\ ~extract_failed)
  /\ "load" \in invoked => ("transform" \in invoked /\ transformed_df # None)
  /\ extract_failed => invoked = {"extract"}
  /\ ("transform" \in invoked /\ pc # "transform" /\ transformed_df = None)
       => ("load" \notin invoked /\ exc = "none")

C1_Witness ==
  /\ pc = "cycle_end"
  /\ mode = "scheduled"
  /\ extract_failed
  /\ invoked = {"extract"}

\* C2: a failed extract or a failed load is re-raised to the caller, so no
\* cycle with a failed stage reaches its "completed" message.
C2_FailureReRaised ==
  pc = "cycle_end" => (~extract_failed /\ failedAt = "none")

\* C3: in scheduled mode no stage failure ends the long-running process.
C3_ScheduledNeverCrashes ==
  mode = "scheduled" => pc # "crashed"

\* C4: once load_to_supabase has exited, no connection it opened is still
\* open, and a failed connect does not make the cleanup raise a new error.
C4_ConnectionReleased ==
  /\ LoadReturned => openConns = 0
  /\ failedAt = "connect" => exc # "UnboundLocalError"

\* C5: a load whose record's key is already stored changes neither the row
\* count nor the stored row and is not a load failure; keys stay unique.
C5_LoadIdempotent ==
  /\ \A r1 \in table : \A r2 \in table : ConflictKey(r1) = ConflictKey(r2) => r1 = r2
  /\ (/\ LoadCommitted
      /\ \E s \in tableBefore : ConflictKey(s) = ConflictKey(transformed_df.rows[1]))
       => (table = tableBefore /\ exc = "none")

C5_Witness ==
  /\ LoadCommitted
  /\ pc = "cycle_end"
  /\ \E s \in tableBefore :
       /\ ConflictKey(s) = ConflictKey(transformed_df.rows[1])
       /\ s.temp_celsius # transformed_df.rows[1].temp_celsius
  /\ table = tableBefore
  /\ Cardinality(table) = 1

\* C6: a load is all-or-nothing: while it runs uncommitted the stored table
\* is the one from before the call; after it, a failure at any step leaves
\* the table unchanged, and a commit leaves exactly the old rows plus the
\* whole record (or the old rows alone when its key was already stored).
C6_AllOrNothing ==
  /\ pc \in {"connect", "cursor", "execute", "commit", "except"} => table = tableBefore
  /\ ("load" \in invoked /\ pc \in AfterLoad /\ failedAt # "none") => table = tableBefore
  /\ LoadCommitted =>
       LET t == InsertTuple(transformed_df.rows[1])
       IN  /\ tableBefore \subseteq table
           /\ table \subseteq tableBefore \cup {t}
           /\ \E s \in table : s.date = t.date

C6_Witness ==
  /\ pc = "cycle_end"
  /\ "load" \in invoked
  /\ failedAt = "commit"
  /\ tableBefore # {}
  /\ table = tableBefore
  /\ \A s \in table : s.date # transformed_df.rows[1].date

\* C7: the one-shot entry point runs exactly one cycle and exits without
\* entering the scheduler loop.
C7_OneShotExits ==
  isMain => (pc \notin {"register", "run_pending", "sleep"} /\ cycles <= 1)

\* C8: an extraction failure is surfaced only after the initial request and
\* 2 retries (3 requests) have been made.
C8_RetriedBeforeFailure ==
  extract_failed => requests = 3

C10_QualityBand20to100 ==
  ("transform" \in invoked /\ pc # "transform") =>
    /\ transformed_df # None
    /\ \A i \in 1..Len(transformed_df.rows) :
         LET h == transformed_df.rows[i].humidity
         IN  /\ h \in 20..100 => transformed_df.rows[i].data_quality = "Good"
             /\ h \notin 20..100 => transformed_df.rows[i].data_quality = "Check"

\* C10 (amended): data_quality is "Good" exactly for humidity in the
\* inclusive band [30,90] and "Check" outside it; in both cases the record
\* is returned with the provider's humidity and is passed on to Load.
C10_QualityBand30to90 ==
  /\ ("transform" \in invoked /\ pc # "transform") =>
       /\ transformed_df # None
       /\ Len(transformed_df.rows) = 1
       /\ \A i \in 1..Len(transformed_df.rows) :
            LET h == transformed_df.rows[i].humidity
            IN  /\ h = response.humidity
                /\ h \in 30..90 => transformed_df.rows[i].data_quality = "Good"
                /\ h \notin 30..90 => transformed_df.rows[i].data_quality = "Check"
  /\ ("transform" \in invoked /\ pc \notin {"transform", "check_transformed"}) => pc = "connect"

C10_Witness ==
  /\ pc = "connect"
  /\ transformed_df # None
  /\ transformed_df.rows[1].humidity = 5
  /\ transformed_df.rows[1].data_quality = "Check"

====
